---- MODULE Spec2Model ----
(***************************************************************************)
(* Model of the Windows platform layer of gcfflasher (src/main_windows.c): *)
(*   - the event loop PL_Loop with its one-shot timer and the transport    *)
(*     operations the consumer calls from its callbacks (Spec, SpecFair),  *)
(*   - device discovery, PL_GetDevices running GetComPort for the "USB"    *)
(*     and the "FTDIBUS" enumerator over one registry (SpecEnum),          *)
(*   - the instance-identifier parser inside GetComPort (SpecParse).       *)
(* Strings are sequences of one-character strings, as the C code handles   *)
(* them byte by byte.                                                      *)
(***************************************************************************)
EXTENDS Integers, Sequences, FiniteSets, TLC

VARIABLES
    \* ---- PL_Internal platform (src/main_windows.c:42-57) and the loop
    timer,          \* platform.timer: absolute deadline, 0 = disarmed
    fd,             \* platform.fd
    running,        \* platform.running
    txpos,          \* platform.txpos
    now,            \* the monotonic clock PL_Time() reads, in ms
    pc,             \* position of the thread: "start", "top", "cb", "exited"
    cbKind,         \* the consumer callback being run while pc = "cb"
    calls,          \* platform calls made by the consumer so far
    last,           \* the last platform operation: [op, res, ev]
    \* ---- observation of the timer (history variables)
    armStatus,      \* "none", "armed", "fired", "cleared"
    armDeadline,    \* now()+ms of the most recent PL_SetTimeout, 0 once it fired
    armMs,          \* ms of the most recent PL_SetTimeout
    fires,          \* EV_TIMEOUT events since the most recent PL_SetTimeout
    firedEarly,     \* an EV_TIMEOUT was raised before that deadline
    missed,         \* a no-data iteration past the deadline raised nothing
    dataSinceArm,   \* bytes were received since the most recent PL_SetTimeout
    \* ---- the identifier parser of GetComPort, run on one identifier
    pIn,            \* the instance identifier and the parts it was built from
    pOut,           \* [done, r]: whether the parser ran, and its result
    \* ---- PL_GetDevices
    devs,           \* the caller's Device array, slots 1..max
    max,            \* its capacity
    epc,            \* "idle", "USB", "FTDIBUS", "count", "done"
    devcount,       \* GetComPort's devcount in the running pass
    seen,           \* entries the running pass has enumerated
    result,         \* the value PL_GetDevices returned
    entry,          \* the device enumerated last and what became of it
    order,          \* [pre, serials]: the serials enumerated so far, in order,
                    \* while they are pairwise unrelated and every device had
                    \* a description and a valid port name (pre)
    snap            \* the array as the "USB" pass left it

loopVars == <<timer, fd, running, txpos, now, pc, cbKind, calls, last,
              armStatus, armDeadline, armMs, fires, firedEarly, missed,
              dataSinceArm>>

parseVars == <<pIn, pOut>>

enumVars == <<devs, max, epc, devcount, seen, result, entry, order, snap>>

vars == <<loopVars, parseVars, enumVars>>

(***************************************************************************)
(* Bounds of the model.                                                    *)
(***************************************************************************)
MaxTime  == 261     \* the clock is observed up to this value
MaxCalls == 4       \* platform calls the consumer makes in one run
MaxCap   == 2       \* largest capacity max of the Device array
MaxEntries == 2     \* devices one enumerator reports

(***************************************************************************)
(* Strings.                                                                *)
(***************************************************************************)
U_strlen(s) == Len(s)

BS == "\\"          \* the backslash character

(***************************************************************************)
(* Platform constants.                                                     *)
(***************************************************************************)
INVALID_HANDLE_VALUE == "INVALID_HANDLE_VALUE"
ComHandle == "HANDLE"

GCF_SUCCESS == "GCF_SUCCESS"
GCF_FAILED  == "GCF_FAILED"

RxBufSize == 64                     \* sizeof(platform.rxbuf)
ReadTotalTimeoutConstant   == 20    \* timeouts.ReadTotalTimeoutConstant
ReadTotalTimeoutMultiplier == 1     \* timeouts.ReadTotalTimeoutMultiplier
IdleSleepMs == 20                   \* Sleep(20) while disconnected
ShortSleepMs == 4                   \* Sleep(4) after an empty read, timer disarmed
MaxPathLen == 7                     \* U_strlen(path) > 7 is rejected

\* An empty read returns when the total timeout of the port has elapsed.
EmptyReadMs == ReadTotalTimeoutConstant + ReadTotalTimeoutMultiplier * RxBufSize

\* How long the blocking calls of one iteration take: at least the time
\* asked for, the scheduler adds to it.
IdleDurations      == {IdleSleepMs, IdleSleepMs + 10}
EmptyReadDurations == {EmptyReadMs + 6, EmptyReadMs + 16}
DataReadDurations  == {0, 10}
ShortSleepDurations == {ShortSleepMs + 6}

\* The ms values the consumer arms the timer with.
TimeoutValues == {0, 50, 100}

\* Paths the consumer passes to PL_Connect.
ConnectPaths ==
    { <<"C","O","M","3">>,                      \* short logical name
      <<"C","O","M","1","2","3","4","5">>,      \* longer than 7 characters
      <<BS,BS,".",BS,"C">>,                     \* already qualified
      <<"t","t","y","S","0">>,                  \* unrecognized first character
      <<>> }                                    \* empty

\* What the operating system answers during PL_Connect.
ConnectOutcomes ==
    {"ok", "CreateFile", "GetCommState", "SetCommState", "SetCommTimeouts",
     "SetCommMask"}

(***************************************************************************)
(* Timer (PL_SetTimeout, PL_ClearTimeout and the check in PL_Loop).         *)
(***************************************************************************)
\* platform.timer = PL_Time() + ms
PL_SetTimeoutValue(time, ms) == time + ms

PL_ClearTimeoutKeeps(t) == t
\* platform.timer = 0
PL_ClearTimeoutValue(t) == 0

TimerExpiredReversed(t, time) == t # 0 /\ t > time
\* if (platform.timer != 0) if (platform.timer < PL_Time())
TimerExpired(t, time) == t # 0 /\ t < time

TimerAfterExpiryKept(t) == t
\* platform.timer = 0, before GCF_HandleEvent(gcf, EV_TIMEOUT)
TimerAfterExpiry(t) == 0

(***************************************************************************)
(* Transport (PL_Connect, PL_Disconnect, PL_ShutDown).                      *)
(***************************************************************************)
NullHandle == "NULL"    \* platform.fd of the zero-initialised static

PL_DisconnectTxposKept(f, tx) == tx
\* PL_Disconnect: if (platform.fd != INVALID_HANDLE_VALUE) platform.txpos = 0
PL_DisconnectTxpos(f, tx) == IF f # INVALID_HANDLE_VALUE THEN 0 ELSE tx

PL_DisconnectFdKept(f) == f
\* PL_Disconnect: CloseHandle(platform.fd); platform.fd = INVALID_HANDLE_VALUE
PL_DisconnectFd(f) == INVALID_HANDLE_VALUE

PL_DisconnectEventsIfOpen(f) == IF f # INVALID_HANDLE_VALUE THEN 1 ELSE 0
\* PL_Disconnect: GCF_HandleEvent(platform.gcf, EV_DISCONNECTED), outside the
\* if: the number of EV_DISCONNECTED events one call raises
PL_DisconnectEvents(f) == 1

Exit1FdLeaked(f) == f
\* Exit1: PL_Disconnect(); return GCF_FAILED;
Exit1Fd(f) == PL_DisconnectFd(f)

\* if (*path == 'C') ... else if (*path == '\\') ... else return GCF_FAILED
PathPrefixKnown(path) == U_strlen(path) > 0 /\ path[1] \in {"C", BS}

ConfigSteps == {"GetCommState", "SetCommState", "SetCommTimeouts", "SetCommMask"}

\* PL_Connect(path, baudrate) with the operating system answering oc:
\* the platform fields and the events it leaves behind.
PL_ConnectEffect(f, tx, path, oc) ==
    IF f # INVALID_HANDLE_VALUE
    THEN [fd |-> f, txpos |-> tx, res |-> GCF_SUCCESS, why |-> "connected", ev |-> 0]
    ELSE IF U_strlen(path) > MaxPathLen
    THEN [fd |-> f, txpos |-> tx, res |-> GCF_FAILED, why |-> "length", ev |-> 0]
    ELSE IF ~PathPrefixKnown(path)
    THEN [fd |-> f, txpos |-> tx, res |-> GCF_FAILED, why |-> "prefix", ev |-> 0]
    ELSE IF oc = "CreateFile"
    THEN [fd |-> INVALID_HANDLE_VALUE, txpos |-> 0, res |-> GCF_FAILED,
          why |-> oc, ev |-> 0]
    ELSE IF oc \in ConfigSteps
    THEN [fd |-> Exit1Fd(ComHandle), txpos |-> PL_DisconnectTxpos(ComHandle, 0),
          res |-> GCF_FAILED, why |-> oc, ev |-> PL_DisconnectEvents(ComHandle)]
    ELSE [fd |-> ComHandle, txpos |-> 0, res |-> GCF_SUCCESS, why |-> "opened",
          ev |-> 0]

NoOp == [op |-> "none", res |-> "", why |-> "", ev |-> 0]

(***************************************************************************)
(* The thread: main calls PL_Loop; every GCF_HandleEvent / GCF_Received is  *)
(* a consumer callback in which the consumer calls platform operations.    *)
(***************************************************************************)
LoopIdleState ==
    /\ timer = 0
    /\ fd = NullHandle
    /\ running = 0
    /\ txpos = 0
    /\ now = 1
    /\ pc = "start"
    /\ cbKind = "none"
    /\ calls = 0
    /\ last = NoOp
    /\ armStatus = "none"
    /\ armDeadline = 0
    /\ armMs = 0
    /\ fires = 0
    /\ firedEarly = FALSE
    /\ missed = FALSE
    /\ dataSinceArm = FALSE

timerObs == <<armStatus, armDeadline, armMs, fires, firedEarly, missed, dataSinceArm>>

\* Enter the callback for event ev; the loop resumes at its condition.
Raise(ev) == /\ pc' = "cb"
             /\ cbKind' = ev

LoopRunningAlways(r) == TRUE
\* while (platform.running)
LoopRunning(r) == r # 0

PL_LoopStartHandleZero ==
    /\ UNCHANGED <<parseVars, enumVars>>
    /\ pc = "start"
    /\ timer' = 0
    /\ txpos' = 0
    /\ fd' = NullHandle
    /\ running' = 1
    /\ Raise("EV_PL_STARTED")
    /\ last' = NoOp
    /\ UNCHANGED <<now, calls, timerObs>>

\* PL_Loop up to GCF_HandleEvent(gcf, EV_PL_STARTED)
PL_LoopStart ==
    /\ UNCHANGED <<parseVars, enumVars>>
    /\ pc = "start"
    /\ timer' = 0
    /\ txpos' = 0
    /\ fd' = INVALID_HANDLE_VALUE
    /\ running' = 1
    /\ Raise("EV_PL_STARTED")
    /\ last' = NoOp
    /\ UNCHANGED <<now, calls, timerObs>>

\* while (platform.running) is false: PL_Loop returns
LoopExit ==
    /\ UNCHANGED <<parseVars, enumVars>>
    /\ pc = "top"
    /\ ~LoopRunning(running)
    /\ pc' = "exited"
    /\ last' = NoOp
    /\ UNCHANGED <<timer, fd, running, txpos, now, cbKind, calls, timerObs>>

\* The timer check of an iteration that delivered no data, made at time t.
CheckTimer(t) ==
    /\ missed' = (missed \/ (armStatus = "armed" /\ t > armDeadline
                              /\ ~TimerExpired(timer, t)))
    /\ IF TimerExpired(timer, t)
       THEN /\ timer' = TimerAfterExpiry(timer)
            /\ fires' = IF fires < 2 THEN fires + 1 ELSE 2
            /\ firedEarly' = (firedEarly \/ t < armDeadline)
            /\ armStatus' = "fired"
            /\ armDeadline' = 0
            /\ Raise("EV_TIMEOUT")
       ELSE /\ UNCHANGED <<timer, fires, firedEarly, armStatus, armDeadline>>
            /\ UNCHANGED <<pc, cbKind>>
    /\ UNCHANGED <<armMs, dataSinceArm>>

\* One iteration with the handle closed: Sleep(20), then the timer check.
LoopIdle(d) ==
    /\ UNCHANGED <<parseVars, enumVars>>
    /\ pc = "top"
    /\ LoopRunning(running)
    /\ fd = INVALID_HANDLE_VALUE
    /\ now + d <= MaxTime
    /\ now' = now + d
    /\ CheckTimer(now + d)
    /\ last' = NoOp
    /\ UNCHANGED <<fd, running, txpos, calls>>

\* One iteration in which ReadFile fails: PL_Disconnect(); continue;
LoopReadFailed ==
    /\ UNCHANGED <<parseVars, enumVars>>
    /\ pc = "top"
    /\ LoopRunning(running)
    /\ fd # INVALID_HANDLE_VALUE
    /\ txpos' = PL_DisconnectTxpos(fd, txpos)
    /\ fd' = PL_DisconnectFd(fd)
    /\ Raise("EV_DISCONNECTED")
    /\ last' = NoOp
    /\ UNCHANGED <<timer, running, now, calls, timerObs>>

LoopReadDataAnyway(d) ==
    /\ UNCHANGED <<parseVars, enumVars>>
    /\ pc = "top"
    /\ fd # INVALID_HANDLE_VALUE
    /\ now + d <= MaxTime
    /\ now' = now + d
    /\ dataSinceArm' = TRUE
    /\ Raise("GCF_Received")
    /\ last' = NoOp
    /\ UNCHANGED <<timer, fd, running, txpos, calls, armStatus, armDeadline, armMs,
                   fires, firedEarly, missed>>

\* One iteration in which ReadFile returns NoBytesRead > 0: GCF_Received
LoopReadData(d) ==
    /\ UNCHANGED <<parseVars, enumVars>>
    /\ pc = "top"
    /\ LoopRunning(running)
    /\ fd # INVALID_HANDLE_VALUE
    /\ now + d <= MaxTime
    /\ now' = now + d
    /\ dataSinceArm' = TRUE
    /\ Raise("GCF_Received")
    /\ last' = NoOp
    /\ UNCHANGED <<timer, fd, running, txpos, calls, armStatus, armDeadline, armMs,
                   fires, firedEarly, missed>>

\* One iteration in which ReadFile returns NoBytesRead == 0 with the timer
\* armed: the timer check.
LoopReadNoneArmed(d) ==
    /\ UNCHANGED <<parseVars, enumVars>>
    /\ pc = "top"
    /\ LoopRunning(running)
    /\ fd # INVALID_HANDLE_VALUE
    /\ timer # 0
    /\ now + d <= MaxTime
    /\ now' = now + d
    /\ CheckTimer(now + d)
    /\ last' = NoOp
    /\ UNCHANGED <<fd, running, txpos, calls>>

\* One iteration in which ReadFile returns NoBytesRead == 0 with the timer
\* disarmed: Sleep(4).
LoopReadNoneIdle(d, z) ==
    /\ UNCHANGED <<parseVars, enumVars>>
    /\ pc = "top"
    /\ LoopRunning(running)
    /\ fd # INVALID_HANDLE_VALUE
    /\ timer = 0
    /\ now + d + z <= MaxTime
    /\ now' = now + d + z
    /\ missed' = (missed \/ (armStatus = "armed" /\ now + d > armDeadline))
    /\ last' = NoOp
    /\ UNCHANGED <<timer, fd, running, txpos, pc, cbKind, calls, armStatus,
                   armDeadline, armMs, fires, firedEarly, dataSinceArm>>

(***************************************************************************)
(* The consumer, inside a callback.                                        *)
(***************************************************************************)
InCallback == pc = "cb" /\ calls < MaxCalls

\* The longest a single iteration blocks while the timer is armed.
MaxStepMs == EmptyReadMs + 16


CallSetTimeout(ms) ==
    /\ UNCHANGED <<parseVars, enumVars>>
    /\ InCallback
    /\ now + ms + MaxStepMs <= MaxTime
    /\ timer' = PL_SetTimeoutValue(now, ms)
    /\ armStatus' = "armed"
    /\ armDeadline' = now + ms
    /\ armMs' = ms
    /\ fires' = 0
    /\ dataSinceArm' = FALSE
    /\ calls' = calls + 1
    /\ last' = NoOp
    /\ UNCHANGED <<fd, running, txpos, now, pc, cbKind, firedEarly, missed>>

CallClearTimeout ==
    /\ UNCHANGED <<parseVars, enumVars>>
    /\ InCallback
    /\ timer' = PL_ClearTimeoutValue(timer)
    /\ armStatus' = IF armStatus = "armed" THEN "cleared" ELSE armStatus
    /\ calls' = calls + 1
    /\ last' = NoOp
    /\ UNCHANGED <<fd, running, txpos, now, pc, cbKind, armDeadline, armMs, fires,
                   firedEarly, missed, dataSinceArm>>

CallConnect(path, oc) ==
    /\ UNCHANGED <<parseVars, enumVars>>
    /\ InCallback
    /\ LET e == PL_ConnectEffect(fd, txpos, path, oc) IN
        /\ fd' = e.fd
        /\ txpos' = e.txpos
        /\ last' = [op |-> "PL_Connect", res |-> e.res, why |-> e.why, ev |-> e.ev]
    /\ calls' = calls + 1
    /\ UNCHANGED <<timer, running, now, pc, cbKind, timerObs>>

CallDisconnect ==
    /\ UNCHANGED <<parseVars, enumVars>>
    /\ InCallback
    /\ txpos' = PL_DisconnectTxpos(fd, txpos)
    /\ fd' = PL_DisconnectFd(fd)
    /\ calls' = calls + 1
    /\ last' = [op |-> "PL_Disconnect", res |-> "", why |-> "",
                ev |-> PL_DisconnectEvents(fd)]
    /\ UNCHANGED <<timer, running, now, pc, cbKind, timerObs>>

\* PL_ShutDown: platform.running = 0
CallShutDown ==
    /\ UNCHANGED <<parseVars, enumVars>>
    /\ InCallback
    /\ running' = 0
    /\ calls' = calls + 1
    /\ last' = NoOp
    /\ UNCHANGED <<timer, fd, txpos, now, pc, cbKind, timerObs>>

(***************************************************************************)
(* Transmit path (PROT_Write, PROT_Putc, PROT_Flush), called by the         *)
(* consumer inside a callback.                                             *)
(***************************************************************************)
TxBufSize == 2048                   \* sizeof(platform.txbuf)

\* What WriteFile answers: all bytes written, FALSE, fewer bytes written.
WriteOutcomes == {"written", "failed", "partial"}

\* The len values the consumer passes to PROT_Write.
WriteLengths == {0, 3}

\* PROT_Write(data, len) with WriteFile answering oc: the value returned.
PROT_WriteResult(len, oc) ==
    IF len = 0 THEN 0
    ELSE IF oc = "failed" THEN 0
    ELSE IF oc = "partial" THEN len - 1
    ELSE len

\* PROT_Write: platform.fd afterwards; no branch of it touches the handle.
PROT_WriteFd(f, len, oc) == f

\* PROT_Write: the EV_DISCONNECTED events it raises; no branch raises one.
PROT_WriteEvents(len, oc) == 0

\* What PROT_Write did, for the record of the last call.
PROT_WriteWhy(len, oc) == IF len = 0 THEN "empty" ELSE oc

\* PROT_Putc: if (platform.txpos + 1 < sizeof(platform.txbuf)) platform.txpos += 1
PROT_PutcTxpos(tx) == IF tx + 1 < TxBufSize THEN tx + 1 ELSE tx

\* PROT_Flush: if (platform.txpos != 0 && platform.txpos < sizeof(platform.txbuf))
PROT_FlushWrites(tx) == tx # 0 /\ tx < TxBufSize

\* PROT_Flush: platform.txpos = 0 inside the if
PROT_FlushTxpos(tx) == IF PROT_FlushWrites(tx) THEN 0 ELSE tx

\* PROT_Write(data, len); the handle is open, as line 694 requires.
CallWrite(len, oc) ==
    /\ UNCHANGED <<parseVars, enumVars>>
    /\ InCallback
    /\ fd # INVALID_HANDLE_VALUE
    /\ fd' = PROT_WriteFd(fd, len, oc)
    /\ last' = [op |-> "PROT_Write", res |-> "", why |-> PROT_WriteWhy(len, oc),
                ev |-> PROT_WriteEvents(len, oc)]
    /\ calls' = calls + 1
    /\ UNCHANGED <<timer, running, txpos, now, pc, cbKind, timerObs>>

\* PROT_Putc(ch)
CallPutc ==
    /\ UNCHANGED <<parseVars, enumVars>>
    /\ InCallback
    /\ txpos' = PROT_PutcTxpos(txpos)
    /\ last' = NoOp
    /\ calls' = calls + 1
    /\ UNCHANGED <<timer, fd, running, now, pc, cbKind, timerObs>>

\* PROT_Flush(); when it has bytes to write the handle is open, as line 694
\* requires.
CallFlush(oc) ==
    /\ UNCHANGED <<parseVars, enumVars>>
    /\ InCallback
    /\ PROT_FlushWrites(txpos) => fd # INVALID_HANDLE_VALUE
    /\ fd' = IF PROT_FlushWrites(txpos) THEN PROT_WriteFd(fd, txpos, oc) ELSE fd
    /\ txpos' = PROT_FlushTxpos(txpos)
    /\ last' = IF PROT_FlushWrites(txpos)
               THEN [op |-> "PROT_Flush", res |-> "", why |-> PROT_WriteWhy(txpos, oc),
                     ev |-> PROT_WriteEvents(txpos, oc)]
               ELSE [op |-> "PROT_Flush", res |-> "", why |-> "empty", ev |-> 0]
    /\ calls' = calls + 1
    /\ UNCHANGED <<timer, running, now, pc, cbKind, timerObs>>

CallbackReturnDisarms ==
    /\ UNCHANGED <<parseVars, enumVars>>
    /\ pc = "cb"
    /\ pc' = "top"
    /\ cbKind' = "none"
    /\ last' = NoOp
    /\ timer' = IF cbKind = "EV_TIMEOUT" THEN 0 ELSE timer
    /\ UNCHANGED <<fd, running, txpos, now, calls, timerObs>>

\* The callback returns to PL_Loop, which goes on to its loop condition.
CallbackReturn ==
    /\ UNCHANGED <<parseVars, enumVars>>
    /\ pc = "cb"
    /\ pc' = "top"
    /\ cbKind' = "none"
    /\ last' = NoOp
    /\ UNCHANGED <<timer, fd, running, txpos, now, calls, timerObs>>


(***************************************************************************)
(* Claims about the timer and the transport.                               *)
(***************************************************************************)

\* C1: per PL_SetTimeout call EV_TIMEOUT is raised at most once, never while
\* the clock is still before the deadline now()+ms of the most recent
\* PL_SetTimeout, and on the first no-data iteration whose time is past
\* that deadline (no such iteration passes without raising it).
C1_TimeoutOncePerArm == fires <= 1 /\ ~firedEarly /\ ~missed

\* Connected, reads returning 0 bytes, a 50 ms timeout: the event is raised.
C1_Witness ==
    /\ cbKind = "EV_TIMEOUT"
    /\ fd = ComHandle
    /\ armMs = 50
    /\ fires = 1
    /\ ~dataSinceArm

\* C2: once PL_SetTimeout was called, and as long as the loop runs, no bytes
\* are received and the timer is neither cleared nor re-armed, EV_TIMEOUT is
\* eventually raised, once and not before the deadline, with the handle
\* open as well as closed.
C2_TimeoutEventuallyRaised ==
    (armStatus = "armed")
        ~> \/ (armStatus = "fired" /\ fires = 1 /\ ~firedEarly)
           \/ armStatus = "cleared"
           \/ dataSinceArm
           \/ running = 0

\* Disconnected, a 100 ms timeout, no data: the event is raised.
C2_Witness ==
    /\ cbKind = "EV_TIMEOUT"
    /\ fd = INVALID_HANDLE_VALUE
    /\ armStatus = "fired"
    /\ armMs = 100
    /\ ~dataSinceArm

\* C3: after PL_ClearTimeout on an armed timer no EV_TIMEOUT is raised until
\* PL_SetTimeout is called again, whatever reads, connects and disconnects
\* follow.
C3_ClearedNeverFires ==
    [][armStatus = "cleared" =>
          /\ armStatus' \in {"cleared", "armed"}
          /\ (armStatus' = "cleared" => fires' = fires)]_vars

\* A 100 ms timeout was cleared, the loop ran past its deadline with the
\* handle open, and nothing was raised.
C3_Witness ==
    /\ armStatus = "cleared"
    /\ armMs = 100
    /\ fires = 0
    /\ now > armDeadline
    /\ fd = ComHandle
    /\ pc = "top"

\* C10: whenever PL_Connect returns GCF_FAILED the handle is closed when it
\* returns.
C10_FailedConnectClosed ==
    (last.op = "PL_Connect" /\ last.res = GCF_FAILED) => fd = INVALID_HANDLE_VALUE

\* PL_Connect opened the port, SetCommMask failed, GCF_FAILED was returned.
C10_Witness ==
    /\ last.op = "PL_Connect"
    /\ last.res = GCF_FAILED
    /\ last.why = "SetCommMask"
    /\ last.ev = 1

(***************************************************************************)
(* U_SStream (u_sstream.h): a string with a read position, ss.pos counted  *)
(* from 0.                                                                 *)
(***************************************************************************)
\* U_sstream_starts_with(ss, str) with ss at position pos: the rest of ss
\* begins with str.
U_sstream_starts_with(str, pos, pat) ==
    /\ U_strlen(str) - pos >= U_strlen(pat)
    /\ SubSeq(str, pos + 1, pos + U_strlen(pat)) = pat

\* U_sstream_find(ss, str): the position of the first occurrence of pat at
\* or after pos, to which ss.pos moves; -1 when there is none and ss.pos
\* stays.
U_sstream_find(str, pos, pat) ==
    LET hits == {q \in pos..(U_strlen(str) - U_strlen(pat)) :
                    U_sstream_starts_with(str, q, pat)}
    IN IF hits = {} THEN -1 ELSE CHOOSE q \in hits : \A r \in hits : q <= r

\* U_sstream_peek_char(ss): the character at ss.pos, '\0' at the end.
NUL == "NUL"
U_sstream_peek_char(str, pos) ==
    IF pos < U_strlen(str) THEN str[pos + 1] ELSE NUL

(***************************************************************************)
(* The identifier parser (GetComPort, lines 178-247).                      *)
(***************************************************************************)
MAX_DEV_SERIALNR_LENGTH == 16       \* sizeof(serial), gcf.h

UpperCase == {"A","B","C","D","E","F","G","H","I","J","K","L","M",
              "N","O","P","Q","R","S","T","U","V","W","X","Y","Z"}
LowerCase == {"a","b","c","d","e","f","g","h","i","j","k","l","m",
              "n","o","p","q","r","s","t","u","v","w","x","y","z"}
Digits    == {"0","1","2","3","4","5","6","7","8","9"}

\* (ch >= 'A' && ch <= 'Z') || (ch >= 'a' && ch <= 'z') || (ch >= '0' && ch <= '9')
IsSerialChar(ch) == ch \in UpperCase \cup LowerCase \cup Digits

VID_1CF1 == <<"V","I","D","_","1","C","F","1">>
PID_0030 == <<"P","I","D","_","0","0","3","0">>
VID_0403 == <<"V","I","D","_","0","4","0","3">>
PID_6015 == <<"P","I","D","_","6","0","1","5">>
VID_1A86 == <<"V","I","D","_","1","A","8","6">>
PID_7523 == <<"P","I","D","_","7","5","2","3">>

\* U_sstream_find(&ss, vid) && U_sstream_find(&ss, pid): the first find moves
\* ss.pos also when the second fails.
FindPair(str, pos, vid, pid) ==
    LET p1 == U_sstream_find(str, pos, vid) IN
    IF p1 = -1 THEN [ok |-> FALSE, pos |-> pos]
    ELSE LET p2 == U_sstream_find(str, p1, pid) IN
         IF p2 = -1 THEN [ok |-> FALSE, pos |-> p1]
         ELSE [ok |-> TRUE, pos |-> p2]

\* filter vendor and product ids (lines 181-200)
FilterVidPid(str) ==
    LET a == FindPair(str, 0, VID_1CF1, PID_0030) IN
    IF a.ok THEN [ok |-> TRUE, pos |-> a.pos, vid |-> "0x1cf1", pid |-> "0x0030"]
    ELSE LET b == FindPair(str, a.pos, VID_0403, PID_6015) IN
    IF b.ok THEN [ok |-> TRUE, pos |-> b.pos, vid |-> "0x0403", pid |-> "0x6015"]
    ELSE LET c == FindPair(str, b.pos, VID_1A86, PID_7523) IN
    IF c.ok THEN [ok |-> TRUE, pos |-> c.pos, vid |-> "0x1a86", pid |-> "0x7523"]
    ELSE [ok |-> FALSE, pos |-> c.pos, vid |-> "", pid |-> ""]

\* if (i + 2 >= (int)sizeof(serial)) break;
SerialLimitReached(i) == i + 2 >= MAX_DEV_SERIALNR_LENGTH

\* if (ch == '\\' && i != 0 && serial[i - 1] == 'A') serial[i - 1] = '\0';
StripsTrailingA(ch, i, serial) == ch = BS /\ i # 0 /\ serial[i] = "A"

\* The copy loop of lines 212-239; serial holds the i characters copied so
\* far, the result is the C string left in serial[].
RECURSIVE ExtractSerial(_, _, _)
ExtractSerial(str, pos, serial) ==
    LET i == Len(serial) IN
    IF pos >= U_strlen(str) THEN serial
    ELSE IF SerialLimitReached(i) THEN serial
    ELSE LET ch == str[pos + 1] IN
         IF IsSerialChar(ch) THEN ExtractSerial(str, pos + 1, Append(serial, ch))
         ELSE IF StripsTrailingA(ch, i, serial) THEN SubSeq(serial, 1, i - 1)
         ELSE serial

Rejected == [ok |-> FALSE, vid |-> "", pid |-> "", serial |-> <<>>]

\* Lines 175-247 on the instance identifier str: rejected (continue), or
\* the vendor, the product and the serial.
ParseInstanceId(str) ==
    IF str = <<>> THEN Rejected
    ELSE LET f == FilterVidPid(str) IN
    IF ~f.ok THEN Rejected
    ELSE LET pos == f.pos + 8 IN
    IF U_sstream_peek_char(str, pos) \notin {"+", BS} THEN Rejected
    ELSE LET serial == ExtractSerial(str, pos + 1, <<>>) IN
    IF serial = <<>> THEN Rejected
    ELSE [ok |-> TRUE, vid |-> f.vid, pid |-> f.pid, serial |-> serial]

(***************************************************************************)
(* The parser run on identifiers built from a bus prefix, a vendor/product *)
(* token, a separator, an alphanumeric run and a tail.                     *)
(***************************************************************************)
Rep(ch, k) == [j \in 1..k |-> ch]

BusPrefixes == { <<"U","S","B","\\">>, <<"F","T","D","I","B","U","S","\\">> }

KnownPairTokens ==
    { <<"V","I","D","_","1","C","F","1","&","P","I","D","_","0","0","3","0">>,
      <<"V","I","D","_","0","4","0","3","+","P","I","D","_","6","0","1","5">>,
      <<"V","I","D","_","0","4","0","3","&","P","I","D","_","6","0","1","5">>,
      <<"V","I","D","_","1","A","8","6","&","P","I","D","_","7","5","2","3">> }

UnknownPairTokens ==
    { <<"V","I","D","_","0","4","0","3","&","P","I","D","_","6","0","0","1">>,
      <<"V","I","D","_","1","C","F","1","&","P","I","D","_","6","0","1","5">>,
      <<"V","I","D","_","0","4","6","D","&","P","I","D","_","C","5","2","B">> }

Separators == { <<"+">>, <<BS>>, <<"&">>, <<>> }

\* Runs around the capacity of serial[], with and without a trailing 'A'.
RunLengths == (MAX_DEV_SERIALNR_LENGTH - 5)..(MAX_DEV_SERIALNR_LENGTH + 1)

SerialRuns ==
    { <<>>, <<"A">>, <<"A","A">>, <<"5">>,
      <<"D","E","1","9","9","5","6","3","4">>,
      <<"D","J","0","0","Q","B","W","E","A">>,
      <<"D","J","0","0","Q","B","W","E">>,
      <<"d","e","1","9","x">> }
    \cup { Rep("D", k) : k \in RunLengths }
    \cup { Rep("D", k) \o <<"A">> : k \in RunLengths }

IdTails == { <<>>, <<"\\","0","0","0","0">>, <<"+","1">>, <<"&","2","F","5","B">> }

MakeId(bus, pair, sep, run, tail) ==
    [id |-> bus \o pair \o sep \o run \o tail,
     known |-> pair \in KnownPairTokens,
     sep |-> sep, run |-> run, tail |-> tail]

ParseInputs ==
    { MakeId(b, pr, sp, r, t) :
        b \in BusPrefixes, pr \in KnownPairTokens \cup UnknownPairTokens,
        sp \in Separators, r \in SerialRuns, t \in IdTails }

NoInput == MakeId(<<>>, <<>>, <<>>, <<>>, <<>>)

NotParsed == [done |-> FALSE, r |-> Rejected]

ParseIdle == pIn = NoInput /\ pOut = NotParsed

\* The identifier SetupDiGetDeviceInstanceId returned is parsed.
Parse ==
    /\ ~pOut.done
    /\ pIn # NoInput
    /\ pOut' = [done |-> TRUE, r |-> ParseInstanceId(pIn.id)]
    /\ UNCHANGED pIn
    /\ UNCHANGED <<loopVars, enumVars>>

(***************************************************************************)
(* Device (gcf.h) and the registry operations of GetComPort.               *)
(***************************************************************************)
NameSize == 16                      \* sizeof(dev->name), gcf.h

UnsetBaudrate      == "0"           \* after ZeroMemory
PL_BAUDRATE_38400  == "PL_BAUDRATE_38400"
PL_BAUDRATE_115200 == "PL_BAUDRATE_115200"

\* ZeroMemory(devs, sizeof(*devs) * max)
ZeroDevice ==
    [name |-> <<>>, serial |-> <<>>, stablepath |-> <<>>, path |-> <<>>,
     baudrate |-> UnsetBaudrate]

Str_ConBee      == <<"C","o","n","B","e","e">>
Str_SerialFTDI  == <<"S","e","r","i","a","l"," ","F","T","D","I">>
Str_SerialCH340 == <<"S","e","r","i","a","l"," ","C","H","3","4","0">>

\* U_sstream_put_str into a buffer of cap bytes holding old.
U_sstream_put_str(cap, old, str) == IF U_strlen(str) < cap THEN str ELSE old

SlotKnowsNever(stored, serial) == FALSE
\* U_sstream_init(&ss, devs[i].serial, ...); U_sstream_starts_with(&ss, serial)
SlotKnows(stored, serial) == U_sstream_starts_with(stored, 0, serial)

\* for (i = 0; i < max; i++) ... dev = &devs[i]; break;  (0: no such slot)
FindKnown(d, m, serial) ==
    LET hits == {i \in 1..m : SlotKnows(d[i].serial, serial)} IN
    IF hits = {} THEN 0 ELSE CHOOSE i \in hits : \A j \in hits : i <= j

FindEmptyLast(d, m) ==
    LET hits == {i \in 1..m : d[i].serial = <<>>} IN
    IF hits = {} THEN 0 ELSE CHOOSE i \in hits : \A j \in hits : i >= j
\* for (i = 0; i < max; i++) if (devs[i].serial[0] == '\0') ...  (0: full)
FindEmpty(d, m) ==
    LET hits == {i \in 1..m : d[i].serial = <<>>} IN
    IF hits = {} THEN 0 ELSE CHOOSE i \in hits : \A j \in hits : i <= j

\* if (dev->name[0] != 'C') is false
NamePinned(name) == name # <<>> /\ name[1] = "C"

\* for (i = 0; i < sizeof(dev->name) && szBuffer[i]; i++) dev->name[i] = szBuffer[i];
CopyName(desc) ==
    SubSeq(desc, 1, IF Len(desc) < NameSize THEN Len(desc) ELSE NameSize)

\* Lines 301-326: the name and the baud rate of dev once the bus-reported
\* description desc was read.
ApplyDescription(dev, vid, desc) ==
    IF NamePinned(dev.name) THEN dev
    ELSE LET n == CopyName(desc) IN
         IF U_sstream_starts_with(n, 0, Str_ConBee)
         THEN [dev EXCEPT !.name = n, !.baudrate = PL_BAUDRATE_115200]
         ELSE IF vid = "0x0403"
         THEN [dev EXCEPT !.name = U_sstream_put_str(NameSize, n, Str_SerialFTDI),
                          !.baudrate = PL_BAUDRATE_38400]
         ELSE IF vid = "0x1a86"
         THEN [dev EXCEPT !.name = U_sstream_put_str(NameSize, n, Str_SerialCH340),
                          !.baudrate = PL_BAUDRATE_115200]
         ELSE [dev EXCEPT !.name = n]

(***************************************************************************)
(* The bus-reported description on its way into dev->name (lines 288-306). *)
(***************************************************************************)
WcbufSize == 128                    \* wchar_t wcbuf[128]

\* A wide character whose low byte is 0 (U+0100).
WideLowZero == "U+0100"

\* szBuffer[i] = (BYTE)wcbuf[i]
WideToByte(ch) == IF ch = WideLowZero THEN NUL ELSE ch

\* for (i = 0; wcbuf[i]; i++) szBuffer[i] = (BYTE)wcbuf[i];  szBuffer[i] = '\0';
WideToAscii(wc) == [i \in 1..Len(wc) |-> WideToByte(wc[i])]

\* szBuffer as the copy loop reads it: the bytes before the first NUL.
AsCString(buf) ==
    LET nuls == {i \in 1..Len(buf) : buf[i] = NUL} IN
    IF nuls = {} THEN buf
    ELSE SubSeq(buf, 1, (CHOOSE i \in nuls : \A j \in nuls : i <= j) - 1)

\* The indexes of dev->name that lines 303-306 write, the terminator's
\* included: 0 .. i with i the value the loop leaves.
NameWrites(dev, sz) ==
    IF NamePinned(dev.name) THEN {} ELSE 0..Len(CopyName(sz))

\* The char arrays of Device one of which follows name in memory.
FieldsAfterName == {"serial", "path", "stablepath"}

\* dev->name[sizeof(dev->name)] = '\0' lands on the first byte of the field
\* that follows name: that field reads as the empty string.
TerminatorSpill(dev, field) == [dev EXCEPT ![field] = <<>>]

\* Lines 293-326 on descriptor dev with the description wc in wcbuf, when
\* field follows name.
DescriptionCopied(dev, vid, wc, field) ==
    IF NameSize \in NameWrites(dev, AsCString(WideToAscii(wc)))
    THEN TerminatorSpill(ApplyDescription(dev, vid, AsCString(WideToAscii(wc))), field)
    ELSE ApplyDescription(dev, vid, AsCString(WideToAscii(wc)))

\* Descriptions of n wide characters: plain, of the product family, with
\* a character outside Latin-1.
DescriptionKinds == {"plain", "family", "wide"}
DescriptionOf(n, kind) ==
    [i \in 1..n |->
        IF kind = "family" /\ i <= Len(Str_ConBee) THEN Str_ConBee[i]
        ELSE IF kind = "wide" /\ i = 4 THEN WideLowZero
        ELSE "x"]

\* The descriptor the description is copied into: just claimed, filled by
\* the "USB" pass with a generic name, filled with a pinned name.
CopyDevices ==
    { [ZeroDevice EXCEPT !.serial = <<"D","J","0","0">>],
      [name |-> Str_SerialFTDI, serial |-> <<"D","J","0","0">>,
       stablepath |-> <<"C","O","M","3">>, path |-> <<"C","O","M","3">>,
       baudrate |-> PL_BAUDRATE_38400],
      [name |-> <<"C","o","n","B","e","e"," ","I","I">>, serial |-> <<"D","E","1","9">>,
       stablepath |-> <<"C","O","M","4">>, path |-> <<"C","O","M","4">>,
       baudrate |-> PL_BAUDRATE_115200] }

CopyVids == {"0x0403", "0x1CF1"}

CopyInputs ==
    { [wc |-> DescriptionOf(n, k), vid |-> v, dev |-> dv] :
        n \in 0..(WcbufSize - 1), k \in DescriptionKinds, v \in CopyVids,
        dv \in CopyDevices }

\* SetupDiGetDevicePropertyW succeeded with a string: lines 293-326 run.
CopyDescription(field) ==
    /\ ~pOut.done
    /\ pOut' = [done |-> TRUE,
                r |-> [writes |-> NameWrites(pIn.dev, AsCString(WideToAscii(pIn.wc))),
                       dev |-> DescriptionCopied(pIn.dev, pIn.vid, pIn.wc, field)]]
    /\ UNCHANGED pIn
    /\ UNCHANGED <<loopVars, enumVars>>

DigitValue(ch) ==
    CASE ch = "0" -> 0 [] ch = "1" -> 1 [] ch = "2" -> 2 [] ch = "3" -> 3
      [] ch = "4" -> 4 [] ch = "5" -> 5 [] ch = "6" -> 6 [] ch = "7" -> 7
      [] ch = "8" -> 8 [] ch = "9" -> 9

\* atoi on a string without sign or leading blanks
RECURSIVE AtoiFrom(_, _, _)
AtoiFrom(str, k, acc) ==
    IF k > Len(str) \/ str[k] \notin Digits THEN acc
    ELSE AtoiFrom(str, k + 1, acc * 10 + DigitValue(str[k]))

\* _tcsnicmp(pszPortName, "COM", 3) == 0 and atoi(pszPortName + 3) != 0
IsComPort(port) ==
    /\ Len(port) >= 3
    /\ port[1] \in {"C", "c"} /\ port[2] \in {"O", "o"} /\ port[3] \in {"M", "m"}
    /\ AtoiFrom(port, 4, 0) # 0

\* if (devs->name[0] == '\0') continue;   (devs, the first slot of the array)
NameMissing(d, k) == d[1].name = <<>>

\* strcpy_s(dev->path, ...); strcpy_s(dev->stablepath, ...)
SetPath(dev, port) == [dev EXCEPT !.path = port, !.stablepath = port]

\* What one iteration of the while loop of GetComPort leaves: the array
\* and devcount, the slot dev points to (0: none), whether the slot was
\* claimed in this iteration, and the serial parsed.
EntryResult(d, cnt, k, claimed, serial) ==
    [devs |-> d, devcount |-> cnt, slot |-> k, claimed |-> claimed,
     serial |-> serial]

\* Lines 332-366 with dev = &devs[k]: the name check, then the port name.
ReadPortName(d, cnt, k, claimed, e, p) ==
    EntryResult(IF ~NameMissing(d, k) /\ e.port.ok /\ IsComPort(e.port.str)
                THEN [d EXCEPT ![k] = SetPath(d[k], e.port.str)]
                ELSE d,
                cnt, k, claimed, p.serial)

\* Lines 284-366 with dev = &devs[k]: the bus-reported description, then
\* the rest of the iteration.
ReadDescription(d, cnt, k, claimed, e, p) ==
    ReadPortName(IF e.desc.ok
                 THEN [d EXCEPT ![k] = ApplyDescription(d[k], p.vid, e.desc.str)]
                 ELSE d,
                 cnt, k, claimed, e, p)

\* Lines 262-282: no slot knows the serial; empty is the first empty slot.
ClaimSlot(d, cnt, empty, e, p) ==
    IF empty = 0 THEN EntryResult(d, cnt, 0, FALSE, p.serial)   \* ALL SLOTS FULL
    ELSE ReadDescription(
            [d EXCEPT ![empty].serial =
                U_sstream_put_str(MAX_DEV_SERIALNR_LENGTH, d[empty].serial, p.serial)],
            cnt + 1, empty, TRUE, e, p)

\* Lines 248-282: known is the slot that knows the serial (0: none).
LookupSlot(d, m, cnt, known, e, p) ==
    IF known # 0 THEN ReadDescription(d, cnt, known, FALSE, e, p)
    ELSE ClaimSlot(d, cnt, FindEmpty(d, m), e, p)

\* One iteration of the while loop of GetComPort (lines 165-372) for the
\* device e = [id, desc, port] the enumerator reports, desc and port being
\* [ok, str]; p is what lines 175-247 make of e.id, ParseInstanceId(e.id).
GetComPortEntry(d, m, cnt, e, p) ==
    IF ~p.ok THEN EntryResult(d, cnt, 0, FALSE, p.serial)
    ELSE LookupSlot(d, m, cnt, FindKnown(d, m, p.serial), e, p)

CountSerialOnly(d, m) == Cardinality({i \in 1..m : d[i].serial # <<>>})
\* for (i = 0; i < max; i++)
\*     if (devs[i].serial[0] != '\0' && devs[i].path[0] != '\0') result++;
RECURSIVE CountFrom(_, _, _)
CountFrom(d, m, i) ==
    IF i > m THEN 0
    ELSE (IF d[i].serial # <<>> /\ d[i].path # <<>> THEN 1 ELSE 0) + CountFrom(d, m, i + 1)

CountUsable(d, m) == CountFrom(d, m, 1)

(***************************************************************************)
(* PL_GetDevices: what the two enumerators report, and the passes.         *)
(***************************************************************************)
Absent == [ok |-> FALSE, str |-> <<>>]
Present(str) == [ok |-> TRUE, str |-> str]

\* Instance identifiers the "USB" enumerator reports.
UsbIds ==
    { <<"U","S","B","\\","V","I","D","_","1","C","F","1","&","P","I","D","_","0","0","3","0","\\","D","E","1","9">>,
      <<"U","S","B","\\","V","I","D","_","0","4","0","3","&","P","I","D","_","6","0","1","5","\\","D","J","0","0">>,
      <<"U","S","B","\\","V","I","D","_","0","4","6","D","&","P","I","D","_","C","5","2","B","\\","6","&","1">>,
      <<>> }

\* Instance identifiers the "FTDIBUS" enumerator reports: the serial of the
\* second USB device, a prefix of it, an extension of it, another one.
FtdiIds ==
    { <<"F","T","D","I","B","U","S","\\","V","I","D","_","0","4","0","3","+","P","I","D","_","6","0","1","5","+","D","J","0","0","A","\\","0","0","0","0">>,
      <<"F","T","D","I","B","U","S","\\","V","I","D","_","0","4","0","3","+","P","I","D","_","6","0","1","5","+","D","J","0","A","\\","0","0","0","0">>,
      <<"F","T","D","I","B","U","S","\\","V","I","D","_","0","4","0","3","+","P","I","D","_","6","0","1","5","+","D","J","0","0","Q","A","\\","0","0","0","0">>,
      <<"F","T","D","I","B","U","S","\\","V","I","D","_","0","4","0","3","+","P","I","D","_","6","0","1","5","+","F","T","9","A","\\","0","0","0","0">> }

\* DEVPKEY_Device_BusReportedDeviceDesc: unreadable, a product-family
\* description, a generic one.  All of them fit dev->name.
Descriptions ==
    { Absent, Present(<<"C","o","n","B","e","e"," ","I","I">>), Present(<<"U","S","B"," ","S","e","r","i","a","l">>) }

\* The PortName value of the device's registry key, under either
\* enumerator: unreadable, a COM port, not a usable port number.
UsbPortNames  == { Absent, Present(<<"C","O","M","3">>), Present(<<"C","O","M","0">>) }
FtdiPortNames == { Absent, Present(<<"C","O","M","3">>), Present(<<"C","O","M","4">>) }

Reported(ids, ports) ==
    { [id |-> i, desc |-> ds, port |-> pn] :
        i \in ids, ds \in Descriptions, pn \in ports }

\* The parser's results on these identifiers (evaluated once).
ParsedId == [i \in UsbIds \cup FtdiIds |-> ParseInstanceId(i)]

ZeroDevices(m) == [i \in 1..m |-> ZeroDevice]

NoEntry == [pass |-> "none", serial |-> <<>>, slot |-> 0, claimed |-> FALSE,
            changed |-> FALSE]

\* One serial is the other or begins with it.
Related(a, b) == U_sstream_starts_with(a, 0, b) \/ U_sstream_starts_with(b, 0, a)

\* order after a device with serial sr was enumerated; full: it had a
\* non-empty description and a valid port name.
Ordered(o, sr, full) ==
    IF o.pre /\ full /\ \A k \in 1..Len(o.serials) : ~Related(o.serials[k], sr)
    THEN [pre |-> TRUE, serials |-> Append(o.serials, sr)]
    ELSE [pre |-> FALSE, serials |-> <<>>]

EnumIdle ==
    /\ devs = <<>>
    /\ max = 0
    /\ epc = "idle"
    /\ devcount = 0
    /\ seen = 0
    /\ result = 0
    /\ entry = NoEntry
    /\ order = [pre |-> TRUE, serials |-> <<>>]
    /\ snap = <<>>

\* PL_GetDevices(devs, max) up to the call of GetComPort("USB", ...)
PL_GetDevicesStart(m) ==
    /\ epc = "idle"
    /\ max' = m
    /\ devs' = ZeroDevices(m)
    /\ snap' = ZeroDevices(m)
    /\ epc' = "USB"
    /\ devcount' = 0
    /\ seen' = 0
    /\ UNCHANGED <<result, entry, order>>
    /\ UNCHANGED <<loopVars, parseVars>>

\* The loop body has handled device e with result r.
EntryHandled(r, e) ==
    /\ devs' = r.devs
    /\ devcount' = r.devcount
    /\ entry' = [pass |-> epc, serial |-> r.serial, slot |-> r.slot,
                  claimed |-> r.claimed, changed |-> r.devs # devs]
    /\ order' = IF r.serial = <<>> THEN order
                 ELSE Ordered(order, r.serial,
                              e.desc.ok /\ e.desc.str # <<>> /\ e.port.ok
                                /\ IsComPort(e.port.str))

\* The enumerator reports one more device and the loop body handles it:
\* SetupDiEnumDeviceInfo(...) && devcount < max
EnumEntry(e) ==
    /\ max # 0
    /\ devcount < max
    /\ seen < MaxEntries
    /\ EntryHandled(GetComPortEntry(devs, max, devcount, e, ParsedId[e.id]), e)
    /\ seen' = seen + 1
    /\ UNCHANGED <<max, epc, result, snap>>
    /\ UNCHANGED <<loopVars, parseVars>>

\* GetComPort("USB", ...): one iteration
EnumUsb(e) == epc = "USB" /\ EnumEntry(e)

\* GetComPort("FTDIBUS", ...): one iteration
EnumFtdi(e) == epc = "FTDIBUS" /\ EnumEntry(e)

\* GetComPort("USB", ...) returns (max == 0, no device list, no further
\* device, or devcount == max); GetComPort("FTDIBUS", ...) is called.
EndUsbPass ==
    /\ epc = "USB"
    /\ epc' = "FTDIBUS"
    /\ snap' = devs
    /\ devcount' = 0
    /\ seen' = 0
    /\ UNCHANGED <<devs, max, result, entry, order>>
    /\ UNCHANGED <<loopVars, parseVars>>

\* GetComPort("FTDIBUS", ...) returns.
EndFtdiPass ==
    /\ epc = "FTDIBUS"
    /\ epc' = "count"
    /\ UNCHANGED <<devs, max, devcount, seen, result, entry, order, snap>>
    /\ UNCHANGED <<loopVars, parseVars>>

\* The counting loop of PL_GetDevices and its return.
PL_GetDevicesReturn ==
    /\ epc = "count"
    /\ result' = CountUsable(devs, max)
    /\ epc' = "done"
    /\ UNCHANGED <<devs, max, devcount, seen, entry, order, snap>>
    /\ UNCHANGED <<loopVars, parseVars>>


(***************************************************************************)
(* Specifications.                                                         *)
(***************************************************************************)
\* The event loop with its consumer.
InitLoop == LoopIdleState /\ ParseIdle /\ EnumIdle

NextLoop ==
    \/ PL_LoopStart
    \/ LoopExit
    \/ \E d \in IdleDurations : LoopIdle(d)
    \/ LoopReadFailed
    \/ \E d \in DataReadDurations : LoopReadData(d)
    \/ \E d \in EmptyReadDurations : LoopReadNoneArmed(d)
    \/ \E d \in EmptyReadDurations, z \in ShortSleepDurations : LoopReadNoneIdle(d, z)
    \/ \E ms \in TimeoutValues : CallSetTimeout(ms)
    \/ CallClearTimeout
    \/ \E p \in ConnectPaths, oc \in ConnectOutcomes : CallConnect(p, oc)
    \/ CallDisconnect
    \/ CallShutDown
    \/ CallbackReturn

Spec == InitLoop /\ [][NextLoop]_vars

\* The thread is never suspended for good: some step is taken whenever one
\* is possible.
SpecFair == Spec /\ WF_vars(NextLoop)

\* The event loop with a consumer that connects, disconnects and transmits
\* and arms no timer; bytes are waiting whenever the loop reads.
InitTx == LoopIdleState /\ ParseIdle /\ EnumIdle

NextTx ==
    \/ PL_LoopStart
    \/ LoopExit
    \/ LoopReadFailed
    \/ LoopReadData(0)
    \/ \E p \in ConnectPaths, oc \in ConnectOutcomes : CallConnect(p, oc)
    \/ CallDisconnect
    \/ CallShutDown
    \/ \E len \in WriteLengths, oc \in WriteOutcomes : CallWrite(len, oc)
    \/ CallPutc
    \/ \E oc \in WriteOutcomes : CallFlush(oc)
    \/ CallbackReturn

SpecTx == InitTx /\ [][NextTx]_vars

\* The parser on one identifier.
InitParse == LoopIdleState /\ EnumIdle /\ pIn \in ParseInputs /\ pOut = NotParsed

NextParse == Parse

SpecParse == InitParse /\ [][NextParse]_vars

\* The description copy on one descriptor.
InitCopy == LoopIdleState /\ EnumIdle /\ pIn \in CopyInputs /\ pOut = NotParsed

NextCopy == \E field \in FieldsAfterName : CopyDescription(field)

SpecCopy == InitCopy /\ [][NextCopy]_vars

\* One call of PL_GetDevices.
InitEnum == LoopIdleState /\ ParseIdle /\ EnumIdle

NextEnum ==
    \/ \E m \in 0..MaxCap : PL_GetDevicesStart(m)
    \/ \E e \in Reported(UsbIds, UsbPortNames) : EnumUsb(e)
    \/ EndUsbPass
    \/ \E e \in Reported(FtdiIds, FtdiPortNames) : EnumFtdi(e)
    \/ EndFtdiPass
    \/ PL_GetDevicesReturn

SpecEnum == InitEnum /\ [][NextEnum]_vars

(***************************************************************************)
(* Claims about device discovery.                                          *)
(***************************************************************************)
SecondPass == epc \in {"FTDIBUS", "count", "done"}

\* The slots the "USB" pass claimed.
FirstPassSlots == {i \in 1..max : snap[i].serial # <<>>}

\* C4: a first-pass entry claimed slot i and the second-pass
\* entry carries the same serial, identical or one a prefix of the other in
\* either direction; then the second-pass entry claims no slot, exactly one
\* slot is claimed for the two.
C4_EitherDirection ==
    \A i \in FirstPassSlots :
        (entry.pass = "FTDIBUS" /\ entry.serial # <<>>
            /\ Related(snap[i].serial, entry.serial))
        => ~entry.claimed

IsFamilyName(name) == U_sstream_starts_with(name, 0, Str_ConBee)

\* C5: in the second pass every field the first pass populated
\* keeps its value; a populated name/baudRate changes only by the override
\* of a generic name by a product-family description.
C5_FirstPassFieldsKept ==
    SecondPass =>
    \A i \in FirstPassSlots :
        /\ snap[i].path # <<>> => devs[i].path = snap[i].path
        /\ snap[i].stablepath # <<>> => devs[i].stablepath = snap[i].stablepath
        /\ snap[i].name # <<>> =>
              \/ devs[i].name = snap[i].name
              \/ IsFamilyName(devs[i].name) /\ ~IsFamilyName(snap[i].name)
        /\ snap[i].baudrate # UnsetBaudrate =>
              \/ devs[i].baudrate = snap[i].baudrate
              \/ /\ IsFamilyName(devs[i].name) /\ ~IsFamilyName(snap[i].name)
                 /\ devs[i].baudrate = PL_BAUDRATE_115200

\* The slots with a serial and a path.
UsableSlots == {i \in 1..max : devs[i].serial # <<>> /\ devs[i].path # <<>>}

\* C6: PL_GetDevices returns the number of slots whose serial and path are
\* both non-empty, which is at most max.
C6_CountsUsableSlots ==
    epc = "done" => result = Cardinality(UsableSlots) /\ result <= max

\* Two slots hold a serial, one of them has no path, 1 is returned.
C6_Witness ==
    /\ epc = "done"
    /\ max = 2
    /\ devs[1].serial # <<>>
    /\ devs[2].serial # <<>>
    /\ result = 1

\* C7: no two slots hold the same non-empty serial.
C7_SerialsUnique ==
    \A i, j \in 1..max :
        (i # j /\ devs[i].serial # <<>>) => devs[i].serial # devs[j].serial

\* A serial already stored was enumerated again while a slot was empty; it
\* was matched to its slot.
C7_Witness ==
    /\ entry.slot # 0
    /\ ~entry.claimed
    /\ devs[entry.slot].serial = entry.serial
    /\ FindEmpty(devs, max) # 0

Take(str, n) == SubSeq(str, 1, IF n < Len(str) THEN n ELSE Len(str))

\* What follows the separator in the identifier, and its longest
\* alphanumeric prefix.
AfterSeparator == pIn.run \o pIn.tail

AlnumRunLen ==
    CHOOSE n \in 0..Len(AfterSeparator) :
        /\ \A k \in 1..n : IsSerialChar(AfterSeparator[k])
        /\ n = Len(AfterSeparator) \/ ~IsSerialChar(AfterSeparator[n + 1])

AlnumRun == SubSeq(AfterSeparator, 1, AlnumRunLen)

\* The run ends in 'A' and a backslash follows it.
TrailingAThenBackslash ==
    /\ AlnumRunLen >= 1
    /\ AlnumRun[AlnumRunLen] = "A"
    /\ AlnumRunLen < Len(AfterSeparator)
    /\ AfterSeparator[AlnumRunLen + 1] = BS

\* The longest alphanumeric run cut to limit characters, and with its
\* trailing 'A' removed when a backslash follows that 'A'.
ExpectedSerial(limit) ==
    Take(IF TrailingAThenBackslash
         THEN SubSeq(AlnumRun, 1, AlnumRunLen - 1)
         ELSE AlnumRun,
         limit)

\* The parser ran on a known pair followed by '+' or '\': it rejects the
\* identifier when expected is empty and else extracts expected, made of
\* letters and digits only.
ParserExtracts(expected) ==
    (pOut.done /\ pIn.known /\ pIn.sep \in {<<"+">>, <<BS>>}) =>
        IF expected = <<>>
        THEN ~pOut.r.ok
        ELSE /\ pOut.r.ok
             /\ pOut.r.serial = expected
             /\ \A k \in 1..Len(pOut.r.serial) : IsSerialChar(pOut.r.serial[k])

\* C8: the serial is the longest alphanumeric run after the
\* separator, up to MAX_DEV_SERIALNR_LENGTH - 1 characters, with one
\* trailing 'A' removed exactly when a backslash follows that 'A'; an empty
\* serial is rejected.
C8_SerialUpToCapacity ==
    ParserExtracts(ExpectedSerial(MAX_DEV_SERIALNR_LENGTH - 1))

(***************************************************************************)
(* Claims about PL_Disconnect, the loop's events and its exit.             *)
(***************************************************************************)
\* A step is a call of PL_Disconnect by the consumer exactly when it leaves
\* that call as the last one (every other step resets the record).
DisconnectCalled == last'.op = "PL_Disconnect"

\* C11: every call of PL_Disconnect raises exactly one EV_DISCONNECTED and
\* leaves the handle closed; on a handle already closed it changes neither
\* the handle nor the transmit cursor, the timer or the running flag.
C11_DisconnectAlwaysSignals ==
    [][DisconnectCalled =>
        /\ last'.ev = 1
        /\ fd' = INVALID_HANDLE_VALUE
        /\ fd = INVALID_HANDLE_VALUE =>
              /\ txpos' = txpos
              /\ timer' = timer
              /\ running' = running]_vars

\* PL_Disconnect was called on the closed transport, inside the callback of
\* a failure-induced EV_DISCONNECTED, with bytes in the transmit buffer.
C11_Witness ==
    /\ last.op = "PL_Disconnect"
    /\ last.ev = 1
    /\ cbKind = "EV_DISCONNECTED"
    /\ fd = INVALID_HANDLE_VALUE
    /\ txpos = 1

\* C12: EV_PL_STARTED is raised once: by the first step of PL_Loop, with
\* the handle closed, the timer disarmed and running set, before any sleep
\* or read; PL_Loop never comes back to that step and no later step raises
\* the event.
C12_StartedOnceFirst ==
    [][/\ pc = "start" =>
            /\ pc' = "cb" /\ cbKind' = "EV_PL_STARTED"
            /\ fd' = INVALID_HANDLE_VALUE /\ timer' = 0 /\ running' = 1
            /\ now' = now /\ fires' = 0
       /\ pc # "start" =>
            /\ pc' # "start"
            /\ cbKind' = "EV_PL_STARTED" => cbKind = "EV_PL_STARTED"]_vars

\* The consumer is in the started callback and has called nothing yet.
C12_Witness ==
    /\ pc = "cb"
    /\ cbKind = "EV_PL_STARTED"
    /\ calls = 0
    /\ fd = INVALID_HANDLE_VALUE
    /\ timer = 0
    /\ running = 1

\* C13: an iteration whose read fails closes the handle and raises
\* EV_DISCONNECTED, and nothing else, in that iteration; with the handle
\* closed an iteration only sleeps and checks the timer, and the handle
\* opens again only by a PL_Connect that succeeds.
C13_ReadFailureDisconnects ==
    [][/\ (pc = "top" /\ cbKind' = "EV_DISCONNECTED") =>
            /\ fd # INVALID_HANDLE_VALUE
            /\ fd' = INVALID_HANDLE_VALUE
            /\ pc' = "cb"
            /\ now' = now
            /\ dataSinceArm' = dataSinceArm
       /\ (pc = "top" /\ running # 0 /\ fd = INVALID_HANDLE_VALUE) =>
            /\ fd' = fd
            /\ cbKind' \in {"none", "EV_TIMEOUT"}
            /\ (now' - now) \in IdleDurations
       /\ (fd = INVALID_HANDLE_VALUE /\ fd' # INVALID_HANDLE_VALUE) =>
            /\ last'.op = "PL_Connect"
            /\ last'.res = GCF_SUCCESS]_vars

\* A read failed on the open handle: the consumer is in the
\* EV_DISCONNECTED callback, the handle is closed.
C13_Witness ==
    /\ pc = "cb"
    /\ cbKind = "EV_DISCONNECTED"
    /\ last = NoOp
    /\ calls = 1
    /\ fd = INVALID_HANDLE_VALUE

\* C14: once running is cleared it stays cleared, and the loop, at its
\* condition, does nothing but exit: no sleep, no read, no event, whether
\* the handle is open or closed.
C14_ShutDownExitsAtCondition ==
    [][/\ (running = 0 /\ pc # "start") => running' = 0
       /\ (running = 0 /\ pc = "top") =>
            /\ pc' = "exited"
            /\ now' = now
            /\ fd' = fd
            /\ cbKind' = cbKind]_vars

\* The loop has exited from the connected state, later than it started.
C14_Witness ==
    /\ pc = "exited"
    /\ running = 0
    /\ fd = ComHandle
    /\ now > 1

\* C15: when PL_Loop has exited the handle is closed.
C15_ExitClosesHandle ==
    pc = "exited" => fd = INVALID_HANDLE_VALUE

\* C16: after a PROT_Write, direct or through PROT_Flush, whose WriteFile
\* failed, the handle is closed and one EV_DISCONNECTED was raised.
C16_WriteErrorDisconnects ==
    (last.op \in {"PROT_Write", "PROT_Flush"} /\ last.why = "failed") =>
        /\ fd = INVALID_HANDLE_VALUE
        /\ last.ev = 1

\* C17: after every call of PL_Disconnect the transmit cursor is 0.
C17_DisconnectResetsCursor ==
    last.op = "PL_Disconnect" => txpos = 0

\* C17, for the open handle only: a call of PL_Disconnect on an open handle
\* leaves the transmit cursor 0, a call on a closed handle leaves the
\* cursor as it is.
C17_DisconnectResetsCursorIfOpen ==
    [][DisconnectCalled =>
        txpos' = IF fd # INVALID_HANDLE_VALUE THEN 0 ELSE txpos]_vars

\* Bytes were appended while the transport was closed and PL_Disconnect was
\* then called in the started callback: the cursor is where it was.
C17_Witness ==
    /\ last.op = "PL_Disconnect"
    /\ cbKind = "EV_PL_STARTED"
    /\ fd = INVALID_HANDLE_VALUE
    /\ txpos = 2

\* C20: the timer is 0 when EV_TIMEOUT is raised and the return of a
\* callback leaves it alone, so the timer is armed exactly as the latest
\* PL_SetTimeout, also one called in the EV_TIMEOUT callback, left it,
\* until it expires or is cleared; and each arming raises at most one
\* EV_TIMEOUT, at the first iteration without data past the deadline.
C20_DisarmedBeforeRaise ==
    /\ [](timer = IF armStatus = "armed" THEN armDeadline ELSE 0)
    /\ [](fires <= 1 /\ ~missed)
    /\ [][/\ (pc = "top" /\ cbKind' = "EV_TIMEOUT") => timer' = 0
          /\ (pc = "cb" /\ pc' = "top") =>
                timer' = timer /\ armStatus' = armStatus]_vars

\* The consumer has called PL_SetTimeout inside the EV_TIMEOUT callback of
\* the connected branch.
C20_Witness ==
    /\ pc = "cb"
    /\ cbKind = "EV_TIMEOUT"
    /\ armStatus = "armed"
    /\ timer # 0
    /\ fd = ComHandle

(***************************************************************************)
(* Claims about unnamed slots and the full registry.                       *)
(***************************************************************************)
\* The slots with a serial, a path and a name.
NamedUsableSlots == {i \in UsableSlots : devs[i].name # <<>>}

\* C18: a slot with an empty name never holds a path, in any pass, and the
\* count PL_GetDevices returns includes no slot with an empty name.
C18_UnnamedNeverUsable ==
    /\ \A i \in 1..max : devs[i].name = <<>> => devs[i].path = <<>>
    /\ epc = "done" => result = Cardinality(NamedUsableSlots)

\* The device handled last had a serial no slot knew and found no empty
\* slot, in the pass that is still running.
RegistryFullHit ==
    /\ entry.pass = epc
    /\ entry.serial # <<>>
    /\ entry.slot = 0

\* C19: once a device of a pass has found the registry full, that pass
\* handles no further device, so no slot changes in it any more.
C19_FullStopsPass ==
    [][(RegistryFullHit /\ epc' = epc) => (seen' = seen /\ devs' = devs)]_vars

(***************************************************************************)
(* Claims about PL_ShutDown called inside a callback.                      *)
(***************************************************************************)
\* C21: once PL_ShutDown was called inside a callback (running is 0 while
\* the thread is in the callback or back at the loop condition), the
\* thread enters no further callback and no time passes in a read or a
\* sleep: the callback returns to the loop condition and the loop exits
\* there, with running still 0.
C21_NothingAfterShutDown ==
    [][(running = 0 /\ pc \in {"cb", "top"}) =>
          /\ running' = 0
          /\ now' = now
          /\ cbKind' \in {cbKind, "none"}
          /\ pc' \in (IF pc = "cb" THEN {"cb", "top"} ELSE {"exited"})]_vars

\* The loop has exited with the handle open and the timer armed, after
\* data was received: a read and an EV_TIMEOUT were still to come.
C21_Witness ==
    /\ pc = "exited"
    /\ running = 0
    /\ fd = ComHandle
    /\ timer # 0
    /\ dataSinceArm

(***************************************************************************)
(* Claims about the copy of the description into dev->name.                *)
(***************************************************************************)
\* C22: the copy of the description into dev->name writes only indexes
\* 0 .. sizeof(name) - 1, the terminator's included, and leaves the other
\* char arrays of the descriptor as they were.
C22_CopyStaysInName ==
    pOut.done =>
        /\ pOut.r.writes \subseteq 0..(NameSize - 1)
        /\ \A f \in FieldsAfterName : pOut.r.dev[f] = pIn.dev[f]

====
